---- MODULE Spec2Model ----
(***************************************************************************)
(* A model of cgrep.go: the concurrent grep pipeline.                      *)
(*                                                                         *)
(* grep() creates three buffered channels (jobs, results, done), starts a  *)
(* dispatcher goroutine, cntWorkers worker goroutines and an aggregator    *)
(* goroutine, and then ranges over results in the calling goroutine.       *)
(* Each worker runs Job.Do on every Job it receives.  Job.Do is modelled   *)
(* step by step (open, read a line, send a match, test the error, close),  *)
(* on files that are byte sequences with an optional read failure.         *)
(*                                                                         *)
(* The initial state is the one in which grep has made the channels and    *)
(* started the goroutines, none of which has taken a step yet: a goroutine *)
(* that grep has not started yet behaves as one that has not been          *)
(* scheduled yet.                                                          *)
(***************************************************************************)
EXTENDS Integers, Sequences, FiniteSets, Bags, TLC

VARIABLES
    disk,       \* the file system: file name -> [exists, data, fail, errAt]
    fnames,     \* grep's argument: the list of file names
    lineRx,     \* grep's argument: the compiled pattern
    cntWorkers, \* the pool size (runtime.NumCPU())
    jobs,       \* chan Job, capacity cntWorkers: [buf, closed]
    results,    \* chan Result, capacity len(fnames): [buf, closed]
    done,       \* chan struct{}, capacity cntWorkers: [buf, closed]
    di,         \* dispatcher: index of the next fname of its range loop
    dpc,        \* dispatcher: "run" or "exit"
    pc,         \* worker w: "range", "open", "read", "send", "check", "close", "signal", "exit"
    job,        \* worker w: the Job it is doing
    file,       \* worker w: the *os.File of Job.Do: "nil" or "open"
    reader,     \* worker w: the bufio.Reader: [off, raised]
    lino,       \* worker w: Job.Do's line counter
    line,       \* worker w: the bytes of the last ReadBytes, trimmed
    err,        \* worker w: the error of the last ReadBytes
    ai,         \* aggregator: its loop counter i
    apc,        \* aggregator: "run" or "exit"
    mpc,        \* grep's own goroutine: "range" or "returned"
    stdout,     \* the Results printed by grep, in order
    stderr,     \* the errors logged, as a bag
    panicked,   \* a goroutine panicked (send on or close of a closed channel)
    doneBy,     \* history: job index -> the workers that received that Job, in order
    closes,     \* history: job index -> the number of file.Close() calls of its Do
    signals,    \* history: worker -> the number of its sends on done
    submitted,  \* history: the Jobs the dispatcher has sent on jobs, in order
    sent        \* history: the Results the workers have sent on results, as a bag

vars == <<disk, fnames, lineRx, cntWorkers, jobs, results, done, di, dpc,
          pc, job, file, reader, lino, line, err, ai, apc, mpc, stdout,
          stderr, panicked, doneBy, closes, signals, submitted, sent>>

inputs == <<disk, fnames, lineRx, cntWorkers>>
wlocals == <<pc, job, file, reader, lino, line, err>>
history == <<doneBy, closes, signals, submitted, sent>>

-----------------------------------------------------------------------------
(* Bounds of the model *)

\* the longest file list given to grep
MaxFiles == 2
\* the longest file content of the single-file scanning specification
MaxLen == 3

-----------------------------------------------------------------------------
(* Bytes, files and patterns *)

LF == "\n"
CR == "\r"
Byte == {"a", "b", LF, CR}

\* a file that exists and reads without failure
Plain(data) == [exists |-> TRUE, data |-> data, fail |-> FALSE, errAt |-> 0]
\* a file whose read fails (once) after errAt bytes have been delivered
Failing(data, n) == [exists |-> TRUE, data |-> data, fail |-> TRUE, errAt |-> n]
\* a path that cannot be opened
Missing == [exists |-> FALSE, data |-> <<>>, fail |-> FALSE, errAt |-> 0]

\* the files of the pipeline specification
Disk ==
    [ tail    |-> Plain(<<"a", LF, "b", LF, "a">>),
      empty   |-> Plain(<<>>),
      missing |-> Missing,
      bad     |-> Failing(<<"a", LF, "a", "b", LF, "a">>, 3) ]

Names == DOMAIN Disk

\* the patterns: "a" matches a line holding an a, ".*" every line,
\* "^$" the empty line only
Patterns == {"a", ".*", "^$"}

\* the pool sizes runtime.NumCPU() is taken from
PoolSizes == {1, 2}
\* the pool sizes of the pool-size specification
ManyPoolSizes == {1, 2, 3}

Min(S) == CHOOSE x \in S : \A y \in S : x <= y
Max(S) == CHOOSE x \in S : \A y \in S : x >= y

\* lineRx.Match(line)
Match(rx, l) ==
    CASE rx = "a"  -> \E i \in 1..Len(l) : l[i] = "a"
      [] rx = ".*" -> TRUE
      [] rx = "^$" -> l = <<>>

\* bytes.TrimRight(line, "\n\r")
RECURSIVE TrimRight(_)
TrimRight(l) ==
    IF l # <<>> /\ l[Len(l)] \in {LF, CR}
    THEN TrimRight(SubSeq(l, 1, Len(l) - 1))
    ELSE l

\* the reader of a freshly opened file
NewReader == [off |-> 0, raised |-> FALSE]

\* reader.ReadBytes('\n') on file f (a Disk record) with reader state rd:
\* the bytes up to and including the next '\n'; or, when the input ends or
\* fails before one is found, the bytes left together with io.EOF or the
\* read error.
ReadBytes(f, rd) ==
    LET failing == f.fail /\ ~rd.raised /\ f.errAt >= rd.off
        stop    == IF failing THEN f.errAt ELSE Len(f.data)
        delims  == {p \in (rd.off + 1)..stop : f.data[p] = LF}
    IN  IF delims # {}
        THEN [line |-> SubSeq(f.data, rd.off + 1, Min(delims)),
              err  |-> "nil",
              rd   |-> [rd EXCEPT !.off = Min(delims)]]
        ELSE [line |-> SubSeq(f.data, rd.off + 1, stop),
              err  |-> IF failing THEN "EIO" ELSE "EOF",
              rd   |-> [off |-> stop, raised |-> rd.raised \/ failing]]

\* ReadBytes on a reader over a nil *os.File: File.Read returns ErrInvalid
ReadNil == [line |-> <<>>, err |-> "ErrInvalid", rd |-> NewReader]

Result(fname, n, l) == [fname |-> fname, lino |-> n, line |-> l]
Job(fname, i) == [fname |-> fname, idx |-> i]
NoJob == [fname |-> "", idx |-> 0]

Chan == [buf |-> <<>>, closed |-> FALSE]

Workers == 1..cntWorkers

\* the capacities of the channels grep makes
JobsCap == cntWorkers
ResultsCap == Len(fnames)
\* a done channel one slot short of the pool size
DoneCapShort == cntWorkers - 1
DoneCap == cntWorkers

-----------------------------------------------------------------------------
(* Initial states *)

RECURSIVE SeqsUpTo(_, _)
SeqsUpTo(S, n) ==
    IF n = 0 THEN {<<>>}
    ELSE LET shorter == SeqsUpTo(S, n - 1)
         IN  shorter \cup {Append(s, x) : s \in shorter, x \in S}

Start ==
    /\ jobs = Chan /\ results = Chan /\ done = Chan
    /\ di = 1 /\ dpc = "run"
    /\ pc = [w \in Workers |-> "range"]
    /\ job = [w \in Workers |-> NoJob]
    /\ file = [w \in Workers |-> "nil"]
    /\ reader = [w \in Workers |-> NewReader]
    /\ lino = [w \in Workers |-> 0]
    /\ line = [w \in Workers |-> <<>>]
    /\ err = [w \in Workers |-> "nil"]
    /\ ai = 0 /\ apc = "run"
    /\ mpc = "range"
    /\ stdout = <<>> /\ stderr = EmptyBag
    /\ panicked = FALSE
    /\ doneBy = [i \in 1..Len(fnames) |-> <<>>]
    /\ closes = [i \in 1..Len(fnames) |-> 0]
    /\ signals = [w \in Workers |-> 0]
    /\ submitted = <<>>
    /\ sent = EmptyBag

\* grep on any list of at most MaxFiles of the files of Disk
Init ==
    /\ disk = Disk
    /\ fnames \in SeqsUpTo(Names, MaxFiles)
    /\ lineRx \in Patterns
    /\ cntWorkers \in PoolSizes
    /\ Start

\* grep on one fixed list of files, with more pool sizes
InitPool ==
    /\ disk = Disk
    /\ fnames = <<"tail", "missing", "empty">>
    /\ lineRx \in Patterns
    /\ cntWorkers \in ManyPoolSizes
    /\ Start

\* every file of at most MaxLen bytes, with every point of read failure
ScanFiles ==
    LET Contents == SeqsUpTo(Byte, MaxLen)
    IN  {Missing} \cup {Plain(d) : d \in Contents}
                  \cup UNION {{Failing(d, n) : n \in 0..Len(d)} : d \in Contents}

\* grep on a single file, of any content
InitScan ==
    /\ disk \in {[f |-> r] : r \in ScanFiles}
    /\ fnames = <<"f">>
    /\ lineRx \in Patterns
    /\ cntWorkers = 1
    /\ Start

-----------------------------------------------------------------------------
(* The dispatcher goroutine *)

\* a send that skips the Job when the queue is full instead of blocking
DispatcherSendOrSkip ==
    /\ ~panicked /\ dpc = "run" /\ di <= Len(fnames)
    /\ IF jobs.closed
       THEN panicked' = TRUE /\ UNCHANGED <<jobs, di, submitted>>
       ELSE /\ IF Len(jobs.buf) < JobsCap
               THEN /\ jobs' = [jobs EXCEPT !.buf = Append(@, Job(fnames[di], di))]
                    /\ submitted' = Append(submitted, Job(fnames[di], di))
               ELSE UNCHANGED <<jobs, submitted>>
            /\ di' = di + 1
            /\ UNCHANGED panicked
    /\ UNCHANGED <<inputs, results, done, dpc, wlocals, ai, apc, mpc, stdout, stderr,
                   doneBy, closes, signals, sent>>

\* jobs <- Job{fname, results}
DispatcherSend ==
    /\ ~panicked /\ dpc = "run" /\ di <= Len(fnames)
    /\ IF jobs.closed
       THEN panicked' = TRUE /\ UNCHANGED <<jobs, di, submitted>>
       ELSE /\ Len(jobs.buf) < JobsCap
            /\ jobs' = [jobs EXCEPT !.buf = Append(@, Job(fnames[di], di))]
            /\ submitted' = Append(submitted, Job(fnames[di], di))
            /\ di' = di + 1
            /\ UNCHANGED panicked
    /\ UNCHANGED <<inputs, results, done, dpc, wlocals, ai, apc, mpc, stdout, stderr,
                   doneBy, closes, signals, sent>>

\* a dispatcher that ends without closing jobs
DispatcherCloseForgotten ==
    /\ ~panicked /\ dpc = "run" /\ di > Len(fnames)
    /\ dpc' = "exit"
    /\ UNCHANGED <<inputs, jobs, results, done, di, wlocals, ai, apc, mpc, stdout,
                   stderr, panicked, history>>

\* close(jobs)
DispatcherClose ==
    /\ ~panicked /\ dpc = "run" /\ di > Len(fnames)
    /\ IF jobs.closed
       THEN panicked' = TRUE /\ UNCHANGED jobs
       ELSE jobs' = [jobs EXCEPT !.closed = TRUE] /\ UNCHANGED panicked
    /\ dpc' = "exit"
    /\ UNCHANGED <<inputs, results, done, di, wlocals, ai, apc, mpc, stdout, stderr, history>>
-----------------------------------------------------------------------------
(* The worker goroutines: for job := range jobs { job.Do(lineRx) }; done <- struct{}{} *)

\* a receive that leaves the Job in the queue
WorkerRecvPeek(w) ==
    /\ ~panicked /\ pc[w] = "range" /\ jobs.buf # <<>>
    /\ job' = [job EXCEPT ![w] = Head(jobs.buf)]
    /\ doneBy' = [doneBy EXCEPT ![Head(jobs.buf).idx] = Append(@, w)]
    /\ pc' = [pc EXCEPT ![w] = "open"]
    /\ UNCHANGED <<inputs, jobs, results, done, di, dpc, file, reader, lino, line, err,
                   ai, apc, mpc, stdout, stderr, panicked, closes, signals,
                   submitted, sent>>

\* range jobs receives a Job: job.Do(lineRx) is called
WorkerRecv(w) ==
    /\ ~panicked /\ pc[w] = "range" /\ jobs.buf # <<>>
    /\ job' = [job EXCEPT ![w] = Head(jobs.buf)]
    /\ jobs' = [jobs EXCEPT !.buf = Tail(@)]
    /\ doneBy' = [doneBy EXCEPT ![Head(jobs.buf).idx] = Append(@, w)]
    /\ pc' = [pc EXCEPT ![w] = "open"]
    /\ UNCHANGED <<inputs, results, done, di, dpc, file, reader, lino, line, err,
                   ai, apc, mpc, stdout, stderr, panicked, closes, signals,
                   submitted, sent>>

\* a loop that ends when the queue is empty, closed or not
WorkerRangeEndEmpty(w) ==
    /\ ~panicked /\ pc[w] = "range" /\ jobs.buf = <<>>
    /\ pc' = [pc EXCEPT ![w] = "signal"]
    /\ UNCHANGED <<inputs, jobs, results, done, di, dpc, job, file, reader, lino,
                   line, err, ai, apc, mpc, stdout, stderr, panicked, history>>

\* range jobs ends: the channel is closed and drained
WorkerRangeEnd(w) ==
    /\ ~panicked /\ pc[w] = "range" /\ jobs.buf = <<>> /\ jobs.closed
    /\ pc' = [pc EXCEPT ![w] = "signal"]
    /\ UNCHANGED <<inputs, jobs, results, done, di, dpc, job, file, reader, lino,
                   line, err, ai, apc, mpc, stdout, stderr, panicked, history>>

\* a Do whose open failure ends the worker goroutine
WorkerOpenAbort(w) ==
    /\ ~panicked /\ pc[w] = "open"
    /\ IF disk[job[w].fname].exists
       THEN /\ file' = [file EXCEPT ![w] = "open"]
            /\ pc' = [pc EXCEPT ![w] = "read"]
            /\ UNCHANGED stderr
       ELSE /\ file' = [file EXCEPT ![w] = "nil"]
            /\ pc' = [pc EXCEPT ![w] = "exit"]
            /\ stderr' = stderr (+) SetToBag({"ENOENT"})
    /\ reader' = [reader EXCEPT ![w] = NewReader]
    /\ lino' = [lino EXCEPT ![w] = 1]
    /\ UNCHANGED <<inputs, jobs, results, done, di, dpc, job, line, err,
                   ai, apc, mpc, stdout, panicked, history>>

\* Job.Do: os.Open, the error is logged and Do goes on; defer file.Close();
\* bufio.NewReader(file); lino := 1
WorkerOpen(w) ==
    /\ ~panicked /\ pc[w] = "open"
    /\ IF disk[job[w].fname].exists
       THEN file' = [file EXCEPT ![w] = "open"] /\ UNCHANGED stderr
       ELSE file' = [file EXCEPT ![w] = "nil"] /\ stderr' = stderr (+) SetToBag({"ENOENT"})
    /\ reader' = [reader EXCEPT ![w] = NewReader]
    /\ lino' = [lino EXCEPT ![w] = 1]
    /\ pc' = [pc EXCEPT ![w] = "read"]
    /\ UNCHANGED <<inputs, jobs, results, done, di, dpc, job, line, err,
                   ai, apc, mpc, stdout, panicked, history>>

\* Job.Do: line, err := reader.ReadBytes('\n'); line = bytes.TrimRight(line, "\n\r");
\* if lineRx.Match(line) { ... }
WorkerRead(w) ==
    /\ ~panicked /\ pc[w] = "read"
    /\ LET r == IF file[w] = "open"
                THEN ReadBytes(disk[job[w].fname], reader[w])
                ELSE ReadNil
           l == TrimRight(r.line)
       IN  /\ reader' = [reader EXCEPT ![w] = r.rd]
           /\ line' = [line EXCEPT ![w] = l]
           /\ err' = [err EXCEPT ![w] = r.err]
           /\ pc' = [pc EXCEPT ![w] = IF Match(lineRx, l) THEN "send" ELSE "check"]
    /\ UNCHANGED <<inputs, jobs, results, done, di, dpc, job, file, lino,
                   ai, apc, mpc, stdout, stderr, panicked, history>>

\* a send that gives up when the sink is full instead of blocking
WorkerSendOrDrop(w) ==
    /\ ~panicked /\ pc[w] = "send"
    /\ IF results.closed
       THEN panicked' = TRUE /\ UNCHANGED <<results, pc, sent>>
       ELSE /\ results' = IF Len(results.buf) < ResultsCap
                          THEN [results EXCEPT
                                   !.buf = Append(@, Result(job[w].fname, lino[w], line[w]))]
                          ELSE results
            /\ sent' = sent (+) SetToBag({Result(job[w].fname, lino[w], line[w])})
            /\ pc' = [pc EXCEPT ![w] = "check"]
            /\ UNCHANGED panicked
    /\ UNCHANGED <<inputs, jobs, done, di, dpc, job, file, reader, lino, line, err,
                   ai, apc, mpc, stdout, stderr, doneBy, closes, signals, submitted>>

\* a send that puts the Result in front of the ones still buffered
WorkerSendFront(w) ==
    /\ ~panicked /\ pc[w] = "send"
    /\ IF results.closed
       THEN panicked' = TRUE /\ UNCHANGED <<results, pc, sent>>
       ELSE /\ Len(results.buf) < ResultsCap
            /\ results' = [results EXCEPT
                               !.buf = <<Result(job[w].fname, lino[w], line[w])>> \o @]
            /\ sent' = sent (+) SetToBag({Result(job[w].fname, lino[w], line[w])})
            /\ pc' = [pc EXCEPT ![w] = "check"]
            /\ UNCHANGED panicked
    /\ UNCHANGED <<inputs, jobs, done, di, dpc, job, file, reader, lino, line, err,
                   ai, apc, mpc, stdout, stderr, doneBy, closes, signals, submitted>>

\* Job.Do: job.results <- Result{job.fname, lino, string(line)}
WorkerSend(w) ==
    /\ ~panicked /\ pc[w] = "send"
    /\ IF results.closed
       THEN panicked' = TRUE /\ UNCHANGED <<results, pc, sent>>
       ELSE /\ Len(results.buf) < ResultsCap
            /\ results' = [results EXCEPT
                               !.buf = Append(@, Result(job[w].fname, lino[w], line[w]))]
            /\ sent' = sent (+) SetToBag({Result(job[w].fname, lino[w], line[w])})
            /\ pc' = [pc EXCEPT ![w] = "check"]
            /\ UNCHANGED panicked
    /\ UNCHANGED <<inputs, jobs, done, di, dpc, job, file, reader, lino, line, err,
                   ai, apc, mpc, stdout, stderr, doneBy, closes, signals, submitted>>

\* a check that logs a read failure and reads on, ending the scan at io.EOF only
WorkerCheckNoBreak(w) ==
    /\ ~panicked /\ pc[w] = "check"
    /\ IF err[w] \notin {"nil", "EIO"}
       THEN /\ stderr' = IF err[w] # "EOF" THEN stderr (+) SetToBag({err[w]}) ELSE stderr
            /\ pc' = [pc EXCEPT ![w] = "close"]
            /\ UNCHANGED lino
       ELSE /\ lino' = [lino EXCEPT ![w] = @ + 1]
            /\ pc' = [pc EXCEPT ![w] = "read"]
            /\ stderr' = IF err[w] = "EIO" THEN stderr (+) SetToBag({err[w]}) ELSE stderr
    /\ UNCHANGED <<inputs, jobs, results, done, di, dpc, job, file, reader, line, err,
                   ai, apc, mpc, stdout, panicked, history>>

\* a check that ends the worker goroutine at a read failure
WorkerCheckAbort(w) ==
    /\ ~panicked /\ pc[w] = "check"
    /\ IF err[w] # "nil"
       THEN /\ stderr' = IF err[w] # "EOF" THEN stderr (+) SetToBag({err[w]}) ELSE stderr
            /\ pc' = [pc EXCEPT ![w] = IF err[w] = "EOF" THEN "close" ELSE "exit"]
            /\ UNCHANGED lino
       ELSE /\ lino' = [lino EXCEPT ![w] = @ + 1]
            /\ pc' = [pc EXCEPT ![w] = "read"]
            /\ UNCHANGED stderr
    /\ UNCHANGED <<inputs, jobs, results, done, di, dpc, job, file, reader, line, err,
                   ai, apc, mpc, stdout, panicked, history>>

\* a check that returns from Do at a read failure without closing the file
WorkerCheckLeak(w) ==
    /\ ~panicked /\ pc[w] = "check"
    /\ IF err[w] \notin {"nil", "EOF"}
       THEN /\ stderr' = stderr (+) SetToBag({err[w]})
            /\ pc' = [pc EXCEPT ![w] = "range"]
            /\ job' = [job EXCEPT ![w] = NoJob]
            /\ file' = [file EXCEPT ![w] = "nil"]
            /\ reader' = [reader EXCEPT ![w] = NewReader]
            /\ lino' = [lino EXCEPT ![w] = 0]
            /\ line' = [line EXCEPT ![w] = <<>>]
            /\ err' = [err EXCEPT ![w] = "nil"]
       ELSE /\ IF err[w] = "EOF"
               THEN pc' = [pc EXCEPT ![w] = "close"] /\ UNCHANGED lino
               ELSE pc' = [pc EXCEPT ![w] = "read"] /\ lino' = [lino EXCEPT ![w] = @ + 1]
            /\ UNCHANGED <<stderr, job, file, reader, line, err>>
    /\ UNCHANGED <<inputs, jobs, results, done, di, dpc,
                   ai, apc, mpc, stdout, panicked, history>>

\* a check that never increments the line counter
WorkerCheckNoIncrement(w) ==
    /\ ~panicked /\ pc[w] = "check"
    /\ IF err[w] # "nil"
       THEN /\ stderr' = IF err[w] # "EOF" THEN stderr (+) SetToBag({err[w]}) ELSE stderr
            /\ pc' = [pc EXCEPT ![w] = "close"]
       ELSE /\ pc' = [pc EXCEPT ![w] = "read"]
            /\ UNCHANGED stderr
    /\ UNCHANGED <<inputs, jobs, results, done, di, dpc, job, file, reader, lino, line,
                   err, ai, apc, mpc, stdout, panicked, history>>

\* Job.Do: if err != nil { if err != io.EOF { log.Printf(...) }; break }; lino++
WorkerCheck(w) ==
    /\ ~panicked /\ pc[w] = "check"
    /\ IF err[w] # "nil"
       THEN /\ stderr' = IF err[w] # "EOF" THEN stderr (+) SetToBag({err[w]}) ELSE stderr
            /\ pc' = [pc EXCEPT ![w] = "close"]
            /\ UNCHANGED lino
       ELSE /\ lino' = [lino EXCEPT ![w] = @ + 1]
            /\ pc' = [pc EXCEPT ![w] = "read"]
            /\ UNCHANGED stderr
    /\ UNCHANGED <<inputs, jobs, results, done, di, dpc, job, file, reader, line, err,
                   ai, apc, mpc, stdout, panicked, history>>

\* Job.Do returns: the deferred file.Close() runs, and the worker is back at
\* its range loop
WorkerClose(w) ==
    /\ ~panicked /\ pc[w] = "close"
    /\ closes' = [closes EXCEPT ![job[w].idx] = @ + 1]
    /\ job' = [job EXCEPT ![w] = NoJob]
    /\ file' = [file EXCEPT ![w] = "nil"]
    /\ reader' = [reader EXCEPT ![w] = NewReader]
    /\ lino' = [lino EXCEPT ![w] = 0]
    /\ line' = [line EXCEPT ![w] = <<>>]
    /\ err' = [err EXCEPT ![w] = "nil"]
    /\ pc' = [pc EXCEPT ![w] = "range"]
    /\ UNCHANGED <<inputs, jobs, results, done, di, dpc, ai, apc, mpc, stdout,
                   stderr, panicked, doneBy, signals, submitted, sent>>

\* done <- struct{}{}
WorkerSignal(w) ==
    /\ ~panicked /\ pc[w] = "signal"
    /\ Len(done.buf) < DoneCap
    /\ done' = [done EXCEPT !.buf = Append(@, "{}")]
    /\ signals' = [signals EXCEPT ![w] = @ + 1]
    /\ pc' = [pc EXCEPT ![w] = "exit"]
    /\ UNCHANGED <<inputs, jobs, results, di, dpc, job, file, reader, lino, line, err,
                   ai, apc, mpc, stdout, stderr, panicked, doneBy, closes,
                   submitted, sent>>

Worker(w) ==
    \/ WorkerRecv(w) \/ WorkerRangeEnd(w) \/ WorkerOpen(w) \/ WorkerRead(w)
    \/ WorkerSend(w) \/ WorkerCheck(w) \/ WorkerClose(w) \/ WorkerSignal(w)

-----------------------------------------------------------------------------
(* The aggregator goroutine *)

\* for i := 0; i < cntWorkers; i++ { <-done }
AggregatorRecv ==
    /\ ~panicked /\ apc = "run" /\ ai < cntWorkers
    /\ done.buf # <<>>
    /\ done' = [done EXCEPT !.buf = Tail(@)]
    /\ ai' = ai + 1
    /\ UNCHANGED <<inputs, jobs, results, di, dpc, wlocals, apc, mpc, stdout,
                   stderr, panicked, history>>

\* an aggregator that closes results after the first completion signal
AggregatorCloseEarly ==
    /\ ~panicked /\ apc = "run" /\ ai >= Min({1, cntWorkers})
    /\ IF results.closed
       THEN panicked' = TRUE /\ UNCHANGED results
       ELSE results' = [results EXCEPT !.closed = TRUE] /\ UNCHANGED panicked
    /\ apc' = "exit"
    /\ UNCHANGED <<inputs, jobs, done, di, dpc, wlocals, ai, mpc, stdout,
                   stderr, history>>

\* an aggregator that waits for one completion signal less than there are workers
AggregatorCloseOffByOne ==
    /\ ~panicked /\ apc = "run" /\ ai >= cntWorkers - 1
    /\ IF results.closed
       THEN panicked' = TRUE /\ UNCHANGED results
       ELSE results' = [results EXCEPT !.closed = TRUE] /\ UNCHANGED panicked
    /\ apc' = "exit"
    /\ UNCHANGED <<inputs, jobs, done, di, dpc, wlocals, ai, mpc, stdout,
                   stderr, history>>

\* close(results)
AggregatorClose ==
    /\ ~panicked /\ apc = "run" /\ ai >= cntWorkers
    /\ IF results.closed
       THEN panicked' = TRUE /\ UNCHANGED results
       ELSE results' = [results EXCEPT !.closed = TRUE] /\ UNCHANGED panicked
    /\ apc' = "exit"
    /\ UNCHANGED <<inputs, jobs, done, di, dpc, wlocals, ai, mpc, stdout,
                   stderr, history>>

-----------------------------------------------------------------------------
(* grep's own goroutine: for result := range results { fmt.Printf(...) } *)

\* a loop that starts to receive only once results is closed
MainRecvAfterClose ==
    /\ ~panicked /\ mpc = "range" /\ results.buf # <<>> /\ results.closed
    /\ stdout' = Append(stdout, Head(results.buf))
    /\ results' = [results EXCEPT !.buf = Tail(@)]
    /\ UNCHANGED <<inputs, jobs, done, di, dpc, wlocals, ai, apc, mpc,
                   stderr, panicked, history>>

MainRecv ==
    /\ ~panicked /\ mpc = "range" /\ results.buf # <<>>
    /\ stdout' = Append(stdout, Head(results.buf))
    /\ results' = [results EXCEPT !.buf = Tail(@)]
    /\ UNCHANGED <<inputs, jobs, done, di, dpc, wlocals, ai, apc, mpc,
                   stderr, panicked, history>>

\* a loop that ends as soon as results is closed, drained or not
MainReturnEarly ==
    /\ ~panicked /\ mpc = "range" /\ results.closed
    /\ mpc' = "returned"
    /\ UNCHANGED <<inputs, jobs, results, done, di, dpc, wlocals, ai, apc,
                   stdout, stderr, panicked, history>>

\* results is closed and drained: the loop ends and grep returns
MainReturn ==
    /\ ~panicked /\ mpc = "range" /\ results.buf = <<>> /\ results.closed
    /\ mpc' = "returned"
    /\ UNCHANGED <<inputs, jobs, results, done, di, dpc, wlocals, ai, apc,
                   stdout, stderr, panicked, history>>

-----------------------------------------------------------------------------
Dispatcher == DispatcherSend \/ DispatcherClose
Aggregator == AggregatorRecv \/ AggregatorClose
Main == MainRecv \/ MainReturn

Next ==
    \/ DispatcherSend
    \/ DispatcherClose
    \/ \E w \in Workers : WorkerRecv(w)
    \/ \E w \in Workers : WorkerRangeEnd(w)
    \/ \E w \in Workers : WorkerOpen(w)
    \/ \E w \in Workers : WorkerRead(w)
    \/ \E w \in Workers : WorkerSend(w)
    \/ \E w \in Workers : WorkerCheck(w)
    \/ \E w \in Workers : WorkerClose(w)
    \/ \E w \in Workers : WorkerSignal(w)
    \/ AggregatorRecv
    \/ AggregatorClose
    \/ MainRecv
    \/ MainReturn

Spec == Init /\ [][Next]_vars

\* the single-file scans
ScanSpec == InitScan /\ [][Next]_vars

\* the pool sizes 1, 2, 3 on one file list
PoolSpec == InitPool /\ [][Next]_vars

\* The Go scheduler runs every goroutine that can take a step: weak fairness
\* of each goroutine.
Fairness ==
    /\ WF_vars(Dispatcher)
    /\ \A w \in 1..Max(PoolSizes) : WF_vars(w \in Workers /\ Worker(w))
    /\ WF_vars(Aggregator)
    /\ WF_vars(Main)

FairSpec == Init /\ [][Next]_vars /\ Fairness

Returned == mpc = "returned"

\* Job.Do as a function: the Results it sends for file f (a disk record)
\* named fname, reading on from reader state rd with line counter n
RECURSIVE Scan(_, _, _, _)
Scan(fname, f, rd, n) ==
    LET r == IF f.exists THEN ReadBytes(f, rd) ELSE ReadNil
        l == TrimRight(r.line)
        m == IF Match(lineRx, l) THEN <<Result(fname, n, l)>> ELSE <<>>
    IN  IF r.err # "nil" THEN m ELSE m \o Scan(fname, f, r.rd, n + 1)

DoOutput(fname) == Scan(fname, disk[fname], NewReader, 1)

-----------------------------------------------------------------------------
(* What the specification calls the lines of a file *)

Range(s) == {s[i] : i \in 1..Len(s)}
BagOfSeq(s) == [x \in Range(s) |-> Cardinality({i \in 1..Len(s) : s[i] = x})]

\* the positions of the line terminators of data
Terminators(data) == {p \in 1..Len(data) : data[p] = LF}
\* the position of the i-th line terminator, 0 for i = 0
Terminator(data, i) ==
    IF i = 0 THEN 0
    ELSE CHOOSE p \in Terminators(data) :
             Cardinality({q \in Terminators(data) : q <= p}) = i
\* the number of lines: the terminated ones, and a non-empty tail
LineCount(data) ==
    LET k == Cardinality(Terminators(data))
    IN  IF Terminator(data, k) < Len(data) THEN k + 1 ELSE k
\* l without its trailing '\n' and '\r'
Stripped(l) ==
    SubSeq(l, 1, Max({0} \cup {i \in 1..Len(l) : l[i] \notin {LF, CR}}))
\* line i of data (1-based), stripped
LineAt(data, i) ==
    LET k == Cardinality(Terminators(data))
        last == IF i <= k THEN Terminator(data, i) - 1 ELSE Len(data)
    IN  Stripped(SubSeq(data, Terminator(data, i - 1) + 1, last))
\* the matches of the first n lines of the file named fname
MatchesUpTo(fname, n) ==
    {Result(fname, i, LineAt(disk[fname].data, i)) :
        i \in {j \in 1..n : Match(lineRx, LineAt(disk[fname].data, j))}}
\* the matches of the file named fname
Matches(fname) == MatchesUpTo(fname, LineCount(disk[fname].data))

Readable(fname) == disk[fname].exists /\ ~disk[fname].fail
Unreadable(fname) == ~disk[fname].exists
\* the lines delivered whole before the read failure of a failing file
WholeLines(fname) ==
    Cardinality({p \in Terminators(disk[fname].data) : p <= disk[fname].errAt})
\* everything sent to the results sink so far
Sent == Range(results.buf) \cup Range(stdout)

-----------------------------------------------------------------------------
(* Termination *)

\* C1: under fair scheduling of all goroutines grep eventually returns, for
\* every file list (the empty one included) and every pool size; and no
\* reachable state in which grep has not returned is a deadlock.
C1_Terminates == <>Returned /\ [](Returned \/ ENABLED Next)

\* grep has returned from a list longer than the jobs queue, with output
C1_Witness == Returned /\ Len(fnames) > cntWorkers /\ stdout # <<>>

-----------------------------------------------------------------------------
(* Completeness *)

AllReadable == \A i \in 1..Len(fnames) : Readable(fnames[i])

\* C2: with no open or read error, the set of matches printed by grep is
\* exactly the set of (file, lineNumber, content) of the matching lines of
\* the files, nothing more and nothing less.
C2_ExactMatches ==
    Returned /\ AllReadable
        => Range(stdout) = UNION {Matches(fnames[i]) : i \in 1..Len(fnames)}

RECURSIVE AllOutput(_)
\* the Results of the first n Jobs, one Do after the other
AllOutput(n) == IF n = 0 THEN <<>> ELSE AllOutput(n - 1) \o DoOutput(fnames[n])

\* C3: for every pool size and in every interleaving, the matches printed
\* are, as a bag, the ones the Jobs yield one after the other: none is
\* duplicated or omitted because of concurrency.
C3_SameMatches == Returned => BagOfSeq(stdout) = BagOfSeq(AllOutput(Len(fnames)))

\* grep has returned with three workers and at least three matches printed
C3_Witness == Returned /\ cntWorkers = 3 /\ Len(stdout) >= 3

NamedOnce(fname) == Cardinality({i \in 1..Len(fnames) : fnames[i] = fname}) = 1

-----------------------------------------------------------------------------
(* Errors *)

\* one path of the list cannot be opened, the others (at least one) read well
OneUnreadable ==
    /\ Len(fnames) >= 2
    /\ \E i \in 1..Len(fnames) :
          /\ Unreadable(fnames[i])
          /\ \A j \in 1..Len(fnames) : j # i => Readable(fnames[j])

\* C5: with one unreadable path among readable ones, grep returns without a
\* panic and every match of the readable files has been printed.
C5_ErrorIsolation ==
    OneUnreadable ~>
        /\ Returned /\ ~panicked
        /\ \A j \in 1..Len(fnames) :
              Readable(fnames[j]) => Matches(fnames[j]) \subseteq Range(stdout)

\* grep has returned from a list of a matching file and a missing one
C5_Witness ==
    /\ Returned /\ OneUnreadable
    /\ \E j \in 1..Len(fnames) :
          Readable(fnames[j]) /\ Matches(fnames[j]) # {}
            /\ Matches(fnames[j]) \subseteq Range(stdout)

\* C6: a Job whose source cannot be opened sends no match to the results
\* sink, whatever the pattern.
C6_NoMatchOnOpenFailure == \A r \in Sent : disk[r.fname].exists

\* C7: the bytes returned together with a read failure (the partial line)
\* are never sent as a match: a failing file yields matches of the lines
\* delivered whole only.
C7_NoPartialLine ==
    \A r \in Sent : disk[r.fname].fail => r.lino <= WholeLines(r.fname)

\* C8: after a read failure Do reads no further in that file, the matches
\* of the lines before the failure are printed, and every Job of the list
\* is processed.
C8_StopsAtFailure ==
    /\ \A w \in Workers :
          file[w] = "open" /\ disk[job[w].fname].fail
              => reader[w].off <= disk[job[w].fname].errAt
    /\ \A r \in Sent : disk[r.fname].fail => r.lino <= WholeLines(r.fname) + 1
    /\ Returned =>
          \A i \in 1..Len(fnames) :
              /\ Len(doneBy[i]) = 1 /\ closes[i] = 1
              /\ disk[fnames[i]].fail =>
                    MatchesUpTo(fnames[i], WholeLines(fnames[i])) \subseteq Range(stdout)

\* grep has returned from a failing file followed by another file, with a
\* match of a line before the failure and a match of the other file printed
C8_Witness ==
    /\ Returned /\ Len(fnames) = 2
    /\ disk[fnames[1]].fail /\ ~disk[fnames[2]].fail
    /\ MatchesUpTo(fnames[1], WholeLines(fnames[1])) # {}
    /\ \E r \in Range(stdout) : r.fname = fnames[2]

\* C9: grep prints no line for an empty file, whatever the pattern.
C9_EmptyFile ==
    \A r \in Range(stdout) : ~(Readable(r.fname) /\ disk[r.fname].data = <<>>)

-----------------------------------------------------------------------------
(* Line numbering *)

\* the file named fname ends in a non-empty line without terminator
Unterminated(fname) ==
    Readable(fname) /\ LineCount(disk[fname].data) > Cardinality(Terminators(disk[fname].data))

\* C10: the line counter is 1 at the first line and one more at each line
\* read; and a non-empty final line without terminator, after k terminated
\* lines, that matches is printed with line number k + 1.
C10_LineNumbers ==
    /\ \A w \in Workers :
          pc[w] \in {"send", "check"} /\ file[w] = "open" =>
              lino[w] = Cardinality({p \in Terminators(disk[job[w].fname].data) :
                                        p <= reader[w].off})
                        + (IF err[w] = "nil" THEN 0 ELSE 1)
    /\ Returned =>
          \A i \in 1..Len(fnames) :
              LET data == disk[fnames[i]].data
                  n == LineCount(data)
              IN  Unterminated(fnames[i]) /\ Match(lineRx, LineAt(data, n))
                      => Result(fnames[i], n, LineAt(data, n)) \in Range(stdout)

\* grep has returned having printed the unterminated second line of a file
C10_Witness ==
    /\ Returned /\ Unterminated(fnames[1])
    /\ LineCount(disk[fnames[1]].data) = 2
    /\ \E r \in Range(stdout) : r.lino = 2 /\ r.line # <<>>

-----------------------------------------------------------------------------
(* The channels *)

\* C11: the results sink is closed by the aggregator only, at most once
\* (a second close panics), and only after it has received the completion
\* signal of every worker; no worker sends on the closed sink (that panics).
C11_ClosedAfterAllSignals ==
    /\ ~panicked
    /\ results.closed <=> apc = "exit"
    /\ results.closed =>
          /\ ai = cntWorkers
          /\ \A w \in Workers : pc[w] = "exit" /\ signals[w] = 1

\* the aggregator has closed the sink of two workers that sent matches,
\* before grep has returned
C11_Witness ==
    results.closed /\ cntWorkers = 2 /\ sent # EmptyBag /\ ~Returned

\* C12: no Job is received by two workers, no two workers do the same Job,
\* and when grep returns every Job of the list was received and done once.
C12_SingleDelivery ==
    /\ \A i \in 1..Len(fnames) : Len(doneBy[i]) <= 1
    /\ \A v, w \in Workers :
          v # w /\ job[v] # NoJob => job[v].idx # job[w].idx
    /\ Returned =>
          \A i \in 1..Len(fnames) : Len(doneBy[i]) = 1 /\ closes[i] = 1

\* grep has returned from two Jobs done by two different workers
C12_Witness ==
    /\ Returned /\ Len(fnames) = 2 /\ cntWorkers = 2
    /\ doneBy[1] # doneBy[2]

\* C13: every Result sent on the sink is buffered in it or printed, once;
\* and when grep returns the sink is empty, every Result sent is printed
\* and no worker is still at work.
C13_PrintedOnce ==
    /\ BagOfSeq(results.buf \o stdout) = sent
    /\ Returned =>
          /\ results.buf = <<>>
          /\ BagOfSeq(stdout) = sent
          /\ \A w \in Workers : pc[w] = "exit"

\* grep has returned having printed three or more matches of two workers
C13_Witness ==
    Returned /\ cntWorkers = 2 /\ Len(stdout) >= 3 /\ BagOfSeq(stdout) = sent

\* C14: each worker sends at most one completion signal, and only once the
\* jobs queue is closed and drained and its own last Job is finished; the
\* signals buffered or received are the ones sent; when grep returns each
\* of the cntWorkers workers has sent its one.
C14_OneSignalEach ==
    /\ \A w \in Workers :
          /\ signals[w] <= 1
          /\ signals[w] = 1 =>
                jobs.closed /\ jobs.buf = <<>> /\ job[w] = NoJob /\ pc[w] = "exit"
    /\ Len(done.buf) + ai = Cardinality({w \in Workers : signals[w] = 1})
    /\ Returned =>
          Cardinality({w \in Workers : signals[w] = 1}) = cntWorkers

\* grep has returned from two Jobs and two workers, each having signalled
C14_Witness ==
    /\ Returned /\ cntWorkers = 2 /\ Len(fnames) = 2
    /\ \A w \in Workers : signals[w] = 1
    /\ ai = 2

\* worker w is blocked sending on the full results sink
Blocked(w) == pc[w] = "send" /\ Len(results.buf) = ResultsCap /\ ~results.closed

\* C15: a worker blocked on the full results sink (more matches than the
\* capacity len(fnames)) is eventually released: grep returns with every
\* match sent printed, more of them than the sink holds.
C15_Backpressure ==
    (\E w \in Workers : Blocked(w)) ~>
        (Returned /\ BagOfSeq(stdout) = sent /\ Len(stdout) > ResultsCap)

\* a worker is blocked on the full sink of capacity 1
C15_Witness == Len(fnames) = 1 /\ \E w \in Workers : Blocked(w)

\* C16: the Jobs sent on the jobs queue are those of the list so far, one
\* per name and in list order; the queue is closed by the dispatcher only,
\* once, after the last Job; no Job is sent on the closed queue.
C16_DispatchInOrder ==
    /\ ~panicked
    /\ submitted = [i \in 1..(di - 1) |-> Job(fnames[i], i)]
    /\ jobs.closed <=> dpc = "exit"
    /\ jobs.closed => Len(submitted) = Len(fnames)

\* the dispatcher has closed the queue after a list longer than its capacity
C16_Witness ==
    jobs.closed /\ Len(fnames) > JobsCap /\ Len(submitted) = Len(fnames)

-----------------------------------------------------------------------------
(* Failures and resources *)

\* some file of the list cannot be opened or fails to read
SomeFailure == \E i \in 1..Len(fnames) : ~Readable(fnames[i])

\* C17: no worker ends without its completion signal, and with failing Jobs
\* in the list every Job is still received, every worker sends its signal
\* and the aggregator counts cntWorkers of them.
C17_FailureIsolation ==
    /\ [](\A w \in Workers : pc[w] = "exit" => signals[w] = 1)
    /\ SomeFailure ~>
          /\ apc = "exit" /\ ai = cntWorkers
          /\ \A w \in Workers : signals[w] = 1
          /\ \A i \in 1..Len(fnames) : Len(doneBy[i]) = 1

\* one worker has done a failing Job and then the next Job, and has signalled
C17_Witness ==
    /\ Len(fnames) = 2 /\ ~Readable(fnames[1])
    /\ doneBy[1] = doneBy[2] /\ doneBy[1] # <<>>
    /\ signals[doneBy[1][1]] = 1

\* C18: the deferred Close of a Do runs exactly once, on every way out of
\* Do (end of input, read failure, no match, open failure), and not before
\* the last read.
C18_ClosedOnce ==
    /\ \A i \in 1..Len(fnames) : closes[i] <= 1
    /\ \A w \in Workers :
          /\ pc[w] \in {"open", "read", "send", "check", "close"}
                => closes[job[w].idx] = 0
          /\ pc[w] \in {"range", "signal", "exit"}
                => \A i \in 1..Len(fnames) : doneBy[i] = <<w>> => closes[i] = 1

\* grep has returned from a file that fails to read and a path that cannot
\* be opened, both closed once
C18_Witness ==
    /\ Returned /\ Len(fnames) = 2
    /\ disk[fnames[1]].fail /\ ~disk[fnames[2]].exists
    /\ closes[1] = 1 /\ closes[2] = 1

\* C19: when grep returns, the dispatcher, every worker and the aggregator
\* have done their last channel operation, and nothing is left in the jobs
\* and done channels.
C19_NothingLeftRunning ==
    Returned =>
        /\ dpc = "exit" /\ apc = "exit"
        /\ \A w \in Workers : pc[w] = "exit"
        /\ jobs.buf = <<>> /\ done.buf = <<>>

\* grep has returned after two workers, of which one did both Jobs
C19_Witness ==
    /\ Returned /\ cntWorkers = 2 /\ Len(fnames) = 2
    /\ doneBy[1] = doneBy[2]

\* C20: a worker about to send its completion signal finds room in the done
\* channel: the signals buffered are at most those of the other workers.
C20_SignalNeverBlocks ==
    \A w \in Workers :
        pc[w] = "signal" =>
            /\ Len(done.buf) < DoneCap
            /\ Len(done.buf) <= Cardinality({v \in Workers : v # w /\ signals[v] = 1})

\* both workers have ended before the aggregator has received anything
C20_Witness ==
    cntWorkers = 2 /\ ai = 0 /\ \A w \in Workers : pc[w] = "exit"

====
